---- MODULE Spec2Model ----
(***************************************************************************)
(* Model of backend.ai-common: cloud detection (identity.py), the bounded  *)
(* fetcher curl (utils.py), the lazily bound per-provider accessors        *)
(* (identity.py) and AsyncBarrier (utils.py).                              *)
(*                                                                         *)
(* Python text is a sequence of one-character strings, so that lower(),    *)
(* strip(), rsplit() and substring tests are computed, not assumed.        *)
(***************************************************************************)
EXTENDS Integers, Sequences, FiniteSets, TLC

(***************************************************************************)
(* Text helpers (Python str methods used by the source)                    *)
(***************************************************************************)
UpperCase ==
    <<"A","B","C","D","E","F","G","H","I","J","K","L","M","N","O","P","Q","R","S","T","U","V","W","X","Y","Z">>
LowerCase ==
    <<"a","b","c","d","e","f","g","h","i","j","k","l","m","n","o","p","q","r","s","t","u","v","w","x","y","z">>

\* str.lower() on one character
LowerChar(c) ==
    IF \E i \in 1..Len(UpperCase) : UpperCase[i] = c
    THEN LowerCase[CHOOSE i \in 1..Len(UpperCase) : UpperCase[i] = c]
    ELSE c

\* str.lower()
Lower(s) ==
    [i \in 1..Len(s) |-> LowerChar(s[i])]

\* needle in s
Contains(s, needle) ==
    \E i \in 1..(Len(s) - Len(needle) + 1) :
        SubSeq(s, i, i + Len(needle) - 1) = needle

\* s.startswith(prefix)
StartsWith(s, prefix) ==
    /\ Len(s) >= Len(prefix)
    /\ SubSeq(s, 1, Len(prefix)) = prefix

(***************************************************************************)
(* Python values and the ways a call can end                               *)
(***************************************************************************)
None ==
    [t |-> "None"]
PyStr(s) ==
    [t |-> "str", s |-> s]
PyBool(b) ==
    [t |-> "bool", b |-> b]
PyFunc(impl) ==
    [t |-> "function", provider |-> impl.provider, build |-> impl.build]

Return(v) ==
    [kind |-> "return", value |-> v]
Raise(e) ==
    [kind |-> "raise", exc |-> e]
Exit(c) ==
    [kind |-> "exit", code |-> c]
NotCalled ==
    [kind |-> "not_called"]

(***************************************************************************)
(* Local files: Path(...).read_text()                                      *)
(***************************************************************************)
Missing ==
    [state |-> "missing", text |-> <<>>]
Denied ==
    [state |-> "denied", text |-> <<>>]
File(text) ==
    [state |-> "ok", text |-> text]

\* Path.read_text(): FileNotFoundError and PermissionError are both IOError
read_text(f) ==
    IF f.state = "ok"
    THEN [exc |-> "none", text |-> f.text]
    ELSE [exc |-> "IOError", text |-> <<>>]

(***************************************************************************)
(* identity.py: string literals                                            *)
(***************************************************************************)
S_google ==
    <<"g","o","o","g","l","e">>
S_amazon ==
    <<"a","m","a","z","o","n">>
S_linux ==
    <<"l","i","n","u","x">>
S_lease_option ==
    <<"u","n","k","n","o","w","n","-","2","4","5">>
S_docker ==
    <<"/","d","o","c","k","e","r","/">>
S_lxc ==
    <<"/","l","x","c","/">>

ProviderTags ==
    {"google", "amazon", "azure", "unknown"}

(***************************************************************************)
(* Sample host environments                                                *)
(***************************************************************************)
BiosGoogle ==
    <<"G","o","o","g","l","e">>
BiosAmazon ==
    <<"4",".","2",".","a","m","a","z","o","n">>
BiosBoth ==
    <<"A","m","a","z","o","n"," ","G","O","O","G","L","E">>
BiosOther ==
    <<"V","i","r","t","u","a","l","B","o","x">>
DhcpAzure ==
    <<"o","p","t","i","o","n"," ","u","n","k","n","o","w","n","-","2","4","5"," ","a",";">>
DhcpPlain ==
    <<"l","e","a","s","e"," ","{"," ","}">>
CgroupDocker ==
    <<"1",":","c","p","u",":","/","d","o","c","k","e","r","/","a","b">>
CgroupLxc ==
    <<"1",":","c","p","u",":","/","l","x","c","/","c","1">>
CgroupHost ==
    <<"0",":",":","/">>
PlatformLinux ==
    <<"l","i","n","u","x">>
PlatformLinux2 ==
    <<"l","i","n","u","x","2">>
PlatformDarwin ==
    <<"d","a","r","w","i","n">>

Platforms ==
    {PlatformLinux, PlatformLinux2, PlatformDarwin}
BiosFiles ==
    {Missing, Denied, File(<<>>), File(BiosGoogle), File(BiosAmazon),
     File(BiosBoth), File(BiosOther)}
DhcpFiles ==
    {Missing, Denied, File(<<>>), File(DhcpAzure), File(DhcpPlain)}
CgroupFiles ==
    {Missing, Denied, File(<<>>), File(CgroupDocker), File(CgroupLxc),
     File(CgroupHost)}
Hosts ==
    [platform : Platforms, bios : BiosFiles, dhcp : DhcpFiles,
     cgroup : CgroupFiles]

(***************************************************************************)
(* identity.py: is_containerized and detect_cloud                          *)
(***************************************************************************)
\* is_containerized(): falls off the end (None) when no marker is found
is_containerized(h) ==
    LET r == read_text(h.cgroup) IN
    IF r.exc = "IOError"
    THEN Return(PyBool(FALSE))
    ELSE IF Contains(r.text, S_docker) \/ Contains(r.text, S_lxc)
         THEN Return(PyBool(TRUE))
         ELSE Return(None)

\* a plausible slip: the amazon test placed before the google test
bios_signal_amazon_first(bios) ==
    IF Contains(bios, S_amazon) THEN "amazon"
    ELSE IF Contains(bios, S_google) THEN "google"
    ELSE "none"

\* the two substring tests on the lower-cased BIOS version
bios_signal(bios) ==
    IF Contains(bios, S_google) THEN "google"
    ELSE IF Contains(bios, S_amazon) THEN "amazon"
    ELSE "none"

\* the substring test on the DHCP lease file
dhcp_signal(dhcp) ==
    IF Contains(dhcp, S_lease_option) THEN "azure" ELSE "none"

\* detect_cloud()
detect_cloud(h) ==
    IF StartsWith(h.platform, S_linux)
    THEN LET b == read_text(h.bios)
             s1 == IF b.exc = "IOError" THEN "none"
                   ELSE bios_signal(Lower(b.text))
             d == read_text(h.dhcp)
             s2 == IF d.exc = "IOError" THEN "none"
                   ELSE dhcp_signal(d.text)
         IN  IF s1 # "none" THEN Return(s1)
             ELSE IF s2 # "none" THEN Return(s2)
             ELSE Return("unknown")
    ELSE Return("unknown")

(***************************************************************************)
(* More str methods: strip() and rsplit(sep, 1)[0]                         *)
(***************************************************************************)
IsSpace(c) ==
    c \in {" ", "\t", "\n", "\r"}

RECURSIVE LStrip(_)
LStrip(s) ==
    IF Len(s) > 0 /\ IsSpace(Head(s)) THEN LStrip(Tail(s)) ELSE s

RECURSIVE RStrip(_)
RStrip(s) ==
    IF Len(s) > 0 /\ IsSpace(s[Len(s)])
    THEN RStrip(SubSeq(s, 1, Len(s) - 1))
    ELSE s

\* str.strip()
Strip(s) ==
    RStrip(LStrip(s))

\* s.rsplit(sep, 1)[0] for a one-character separator: the text before the
\* last occurrence of sep, or all of s when sep does not occur
RSplitHead(s, sep) ==
    IF \E i \in 1..Len(s) : s[i] = sep
    THEN LET last == CHOOSE i \in 1..Len(s) :
                         /\ s[i] = sep
                         /\ \A j \in (i + 1)..Len(s) : s[j] # sep
         IN  SubSeq(s, 1, last - 1)
    ELSE s

(***************************************************************************)
(* identity.py: more string literals                                       *)
(***************************************************************************)
S_loopback ==
    <<"1","2","7",".","0",".","0",".","1">>
S_unknown ==
    <<"u","n","k","n","o","w","n">>
S_default ==
    <<"d","e","f","a","u","l","t">>
S_i_dash ==
    <<"i","-">>
S_amazon_slash ==
    <<"a","m","a","z","o","n","/">>
S_azure_slash ==
    <<"a","z","u","r","e","/">>
S_google_slash ==
    <<"g","o","o","g","l","e","/">>
S_amazon_unknown ==
    <<"a","m","a","z","o","n","/","u","n","k","n","o","w","n">>
S_azure_unknown ==
    <<"a","z","u","r","e","/","u","n","k","n","o","w","n">>
S_local_unknown ==
    <<"l","o","c","a","l","/","u","n","k","n","o","w","n">>

(***************************************************************************)
(* Sample response bodies, host names, helper outputs                      *)
(***************************************************************************)
BodyZone ==
    <<"p","r","o","j","e","c","t","s","/","1","2","3","/","z","o","n","e","s","/","u","s","-","c","e","n","t","r","a","l","1","-","a">>
BodyZonePadded ==
    <<"p","r","o","j","e","c","t","s","/","1","2","3","/","z","o","n","e","s","/","u","s","-","c","e","n","t","r","a","l","1","-","a","\n">>
BodyPlain ==
    <<" ","i","-","0","a","b","c"," ","\n">>
BodyBlank ==
    <<" ","\n">>
BodyHtml ==
    <<"<","h","t","m","l",">">>
BodyAwsDoc ==
    <<"{","\"","r","e","g","i","o","n","\"",":","\"","a","p","-","2","\"","}">>
BodyEmptyDoc ==
    <<"{","}">>
BodyAzureDoc ==
    <<"{","\"","c","o","m","p","u","t","e","\"",":","{","\"","l","o","c","a","t","i","o","n","\"",":","\"","e","a","s","t","u","s","\"",",","\"","v","m","I","d","\"",":","\"","v","1","\"",",","\"","v","m","S","i","z","e","\"",":","\"","A","1","\"","}",",","\"","n","e","t","w","o","r","k","\"",":","{","\"","i","n","t","e","r","f","a","c","e","\"",":","[","{","\"","i","p","v","4","\"",":","{","\"","i","p","a","d","d","r","e","s","s","\"",":","[","{","\"","i","p","a","d","d","r","e","s","s","\"",":","\"","1","0",".","0",".","0",".","4","\"","}","]","}","}","]","}","}">>
BodyAzureLocationOnly ==
    <<"{","\"","c","o","m","p","u","t","e","\"",":","{","\"","l","o","c","a","t","i","o","n","\"",":","\"","e","a","s","t","u","s","\"","}","}">>
T_ap2 ==
    <<"a","p","-","2">>
T_eastus ==
    <<"e","a","s","t","u","s">>
T_v1 ==
    <<"v","1">>
T_A1 ==
    <<"A","1">>
T_addr ==
    <<"1","0",".","0",".","0",".","4">>
HostA ==
    <<"n","o","d","e","1">>
HostB ==
    <<"h">>
OutGroup ==
    <<"g","r","p","\n">>
OutNewline ==
    <<"\n">>
ErrNotInstalled ==
    <<"a","w","s"," ","c","o","m","m","a","n","d"," ","n","o","t"," ","i","n","s","t","a","l","l","e","d",".","\n">>
ErrRetrieving ==
    <<"E","r","r","o","r"," ","r","e","t","r","i","e","v","i","n","g"," ","t","a","g"," ","v","a","l","u","e",".","\n">>
RegionOverride ==
    <<"k","r","-","1">>

(***************************************************************************)
(* utils.py: curl                                                          *)
(***************************************************************************)
HTTP_OK ==
    200

\* A GET either raises while connecting or waiting (exc), or yields a status;
\* reading the body of a response (resp.text()) can raise as well (body_exc).
GetFailed(e) ==
    [exc |-> e, status |-> 0, body_exc |-> "none", body |-> <<>>]
Response(status, body) ==
    [exc |-> "none", status |-> status, body_exc |-> "none", body |-> body]
BodyFailed(status, e) ==
    [exc |-> "none", status |-> status, body_exc |-> e, body |-> <<>>]

\* lambda: f'i-{socket.gethostname()}' -- a deferred default
PyLambda(result) ==
    [t |-> "lambda", result |-> result]
callable(v) ==
    v.t = "lambda"

\* the request of curl reached `return body.strip()`
RequestSucceeded(resp) ==
    /\ resp.exc = "none"
    /\ resp.status = HTTP_OK
    /\ resp.body_exc = "none"

\* a plausible slip: the default is computed before the request is made
curl_eager_default(resp, default_value) ==
    LET calls == IF callable(default_value) THEN 1 ELSE 0
        dflt == IF callable(default_value) THEN default_value.result
                ELSE default_value
    IN  IF RequestSucceeded(resp)
        THEN [out |-> Return(PyStr(Strip(resp.body))), gets |-> 1,
              default_calls |-> calls]
        ELSE [out |-> Return(dflt), gets |-> 1, default_calls |-> calls]

\* curl(url, default_value, ...): the outcome, the number of GETs issued and
\* the number of times the default was called
curl(resp, default_value) ==
    IF RequestSucceeded(resp)
    THEN [out |-> Return(PyStr(Strip(resp.body))), gets |-> 1,
          default_calls |-> 0]
    ELSE IF callable(default_value)
         THEN [out |-> Return(default_value.result), gets |-> 1,
               default_calls |-> 1]
         ELSE [out |-> Return(default_value), gets |-> 1,
               default_calls |-> 0]

(***************************************************************************)
(* json.loads and subscripting of its result                               *)
(***************************************************************************)
PyDict(f) ==
    [t |-> "dict", f |-> f]
PyList(a) ==
    [t |-> "list", a |-> a]
Key(name) ==
    [k |-> "key", name |-> name]
Index(n) ==
    [k |-> "index", n |-> n]

ParsedAwsDoc ==
    PyDict([region |-> PyStr(T_ap2)])
ParsedEmptyDoc ==
    PyDict(<<>>)
ParsedAzureDoc ==
    PyDict([compute |-> PyDict([location |-> PyStr(T_eastus),
                                vmId |-> PyStr(T_v1),
                                vmSize |-> PyStr(T_A1)]),
            network |-> PyDict([interface |-> PyList(<<
                PyDict([ipv4 |-> PyDict([ipaddress |-> PyList(<<
                    PyDict([ipaddress |-> PyStr(T_addr)])>>)])])>>)])])
ParsedAzureLocationOnly ==
    PyDict([compute |-> PyDict([location |-> PyStr(T_eastus)])])

\* json.loads(text) on the sample bodies: a document parses to its value,
\* any other sample is not JSON and raises JSONDecodeError
json_loads(text) ==
    CASE text = BodyAwsDoc -> [exc |-> "none", value |-> ParsedAwsDoc]
      [] text = BodyEmptyDoc -> [exc |-> "none", value |-> ParsedEmptyDoc]
      [] text = BodyAzureDoc -> [exc |-> "none", value |-> ParsedAzureDoc]
      [] text = BodyAzureLocationOnly ->
             [exc |-> "none", value |-> ParsedAzureLocationOnly]
      [] OTHER -> [exc |-> "JSONDecodeError", value |-> None]

\* o[key] for one subscript
Subscript(o, p) ==
    IF o.t = "dict" /\ p.k = "key"
    THEN IF p.name \in DOMAIN o.f
         THEN [exc |-> "none", value |-> o.f[p.name]]
         ELSE [exc |-> "KeyError", value |-> None]
    ELSE IF o.t = "list" /\ p.k = "index"
    THEN IF p.n + 1 \in DOMAIN o.a
         THEN [exc |-> "none", value |-> o.a[p.n + 1]]
         ELSE [exc |-> "IndexError", value |-> None]
    ELSE IF o.t = "str" /\ p.k = "index"
    THEN IF p.n + 1 \in DOMAIN o.s
         THEN [exc |-> "none", value |-> PyStr(<<o.s[p.n + 1]>>)]
         ELSE [exc |-> "IndexError", value |-> None]
    ELSE IF o.t = "dict"
    THEN [exc |-> "KeyError", value |-> None]
    ELSE [exc |-> "TypeError", value |-> None]

\* o[p1][p2]...[pn]
RECURSIVE GetPath(_, _)
GetPath(o, path) ==
    IF path = <<>>
    THEN [exc |-> "none", value |-> o]
    ELSE LET r == Subscript(o, Head(path)) IN
         IF r.exc # "none" THEN r ELSE GetPath(r.value, Tail(path))

\* json.loads(data)[p1]...[pn] as the end of an accessor
ParseAndGet(data, path) ==
    LET d == json_loads(data) IN
    IF d.exc # "none" THEN Raise(d.exc)
    ELSE LET r == GetPath(d.value, path) IN
         IF r.exc # "none" THEN Raise(r.exc) ELSE Return(r.value)

(***************************************************************************)
(* What an accessor call meets outside the process                         *)
(***************************************************************************)
DnsOk(address) ==
    [exc |-> "none", address |-> address]
DnsFailed ==
    [exc |-> "DNSError", address |-> <<>>]
\* Popen(['sh', './retrieve_tag.sh', 'Scaling_Group']) and communicate()
Helper(stdout, stderr) ==
    [spawn |-> "ok", stdout |-> stdout, stderr |-> stderr]
HelperNotSpawned ==
    [spawn |-> "OSError", stdout |-> <<>>, stderr |-> <<>>]
EnvUnset ==
    [set |-> FALSE, value |-> <<>>]
EnvSet(value) ==
    [set |-> TRUE, value |-> value]

HttpOutcomes ==
    {GetFailed("TimeoutError"), GetFailed("ClientError"),
     Response(404, BodyHtml), BodyFailed(HTTP_OK, "ClientError")}
    \cup {Response(HTTP_OK, b) :
            b \in {BodyZone, BodyZonePadded, BodyPlain, BodyBlank, BodyHtml,
                   BodyAwsDoc, BodyEmptyDoc, BodyAzureDoc,
                   BodyAzureLocationOnly}}
Hostnames ==
    {HostA, HostB}
DnsOutcomes ==
    {DnsOk(T_addr), DnsFailed}
HelperOutcomes ==
    {Helper(OutGroup, <<>>), Helper(OutNewline, <<>>),
     Helper(<<>>, ErrNotInstalled), Helper(<<>>, ErrRetrieving),
     HelperNotSpawned}
BackendRegionValues ==
    {EnvUnset, EnvSet(<<>>), EnvSet(RegionOverride)}

\* what the accessor of a fact reads from outside, per set of accessors
Reads(provider, fact) ==
    CASE provider = "amazon" /\ fact = "scaling_group" -> {"helper"}
      [] provider = "local" /\ fact = "id" -> {"hostname"}
      [] provider = "local" /\ fact = "ip" -> {"dns"}
      [] provider = "local" /\ fact = "region" -> {"backend_region"}
      [] provider = "local" /\ fact = "type" -> {}
      [] provider # "amazon" /\ fact = "scaling_group" -> {}
      [] provider # "local" /\ fact = "id" -> {"http", "hostname"}
      [] OTHER -> {"http"}

\* the outside of one call: each source the accessor reads takes every
\* sample outcome, the sources it does not read are held at one value
Envs(provider, fact) ==
    LET reads == Reads(provider, fact) IN
    [http : IF "http" \in reads THEN HttpOutcomes
            ELSE {GetFailed("ClientError")},
     hostname : IF "hostname" \in reads THEN Hostnames ELSE {HostA},
     dns : IF "dns" \in reads THEN DnsOutcomes ELSE {DnsFailed},
     helper : IF "helper" \in reads THEN HelperOutcomes
              ELSE {Helper(<<>>, ErrRetrieving)},
     backend_region : IF "backend_region" \in reads
                      THEN BackendRegionValues ELSE {EnvUnset}]

(***************************************************************************)
(* identity.py: the four sets of accessors built by _define_functions      *)
(***************************************************************************)
Facts ==
    {"id", "ip", "type", "region", "scaling_group"}

\* f'i-{socket.gethostname()}'
hostname_id(env) ==
    PyStr(S_i_dash \o env.hostname)

\* {value} in an f-string
S_object ==
    <<"<","o","b","j","e","c","t",">">>
Format(v) ==
    IF v.t = "str" THEN v.s ELSE S_object

\* an accessor that touches no file
Pure(out, script) ==
    [out |-> out, script |-> script]

amazon_get_instance_id(env) ==
    curl(env.http, PyLambda(hostname_id(env))).out

amazon_get_instance_ip(env) ==
    curl(env.http, PyStr(S_loopback)).out

amazon_get_instance_type(env) ==
    curl(env.http, PyStr(S_unknown)).out

amazon_get_instance_region(env) ==
    LET doc == curl(env.http, None).out.value IN
    IF doc.t = "None"
    THEN Return(PyStr(S_amazon_unknown))
    ELSE LET r == ParseAndGet(doc.s, <<Key("region")>>) IN
         IF r.kind = "raise" THEN r
         ELSE Return(PyStr(S_amazon_slash \o Format(r.value)))

\* writes ./retrieve_tag.sh, runs it, exits the process when the helper wrote
\* to stderr, and unlinks the script only after that test
amazon_get_instance_scaling_group(env) ==
    IF env.helper.spawn = "OSError"
    THEN [out |-> Raise("OSError"), script |-> TRUE]
    ELSE IF env.helper.stderr # <<>>
    THEN [out |-> Exit(1), script |-> TRUE]
    ELSE [out |-> Return(PyStr(env.helper.stdout)), script |-> FALSE]

\* the metadata document of Azure, then one value of it
azure_get(env, dflt, path) ==
    LET data == curl(env.http, None).out.value IN
    IF data.t = "None" THEN Return(dflt) ELSE ParseAndGet(data.s, path)

azure_get_instance_id(env) ==
    azure_get(env, hostname_id(env), <<Key("compute"), Key("vmId")>>)

azure_get_instance_ip(env) ==
    azure_get(env, PyStr(S_loopback),
              <<Key("network"), Key("interface"), Index(0), Key("ipv4"),
                Key("ipaddress"), Index(0), Key("ipaddress")>>)

azure_get_instance_type(env) ==
    azure_get(env, PyStr(S_unknown), <<Key("compute"), Key("vmSize")>>)

azure_get_instance_region(env) ==
    LET data == curl(env.http, None).out.value IN
    IF data.t = "None"
    THEN Return(PyStr(S_azure_unknown))
    ELSE LET r == ParseAndGet(data.s, <<Key("compute"), Key("location")>>) IN
         IF r.kind = "raise" THEN r
         ELSE Return(PyStr(S_azure_slash \o Format(r.value)))

google_get_instance_id(env) ==
    curl(env.http, PyLambda(hostname_id(env))).out

google_get_instance_ip(env) ==
    curl(env.http, PyStr(S_loopback)).out

google_get_instance_type(env) ==
    curl(env.http, PyStr(S_unknown)).out

google_get_instance_region(env) ==
    LET zone == curl(env.http, PyStr(S_unknown)).out.value
        region == RSplitHead(zone.s, "-")
    IN  Return(PyStr(S_google_slash \o region))

local_get_instance_id(env) ==
    Return(hostname_id(env))

local_get_instance_ip(env) ==
    IF env.dns.exc = "DNSError"
    THEN Return(PyStr(S_loopback))
    ELSE Return(PyStr(env.dns.address))

local_get_instance_type(env) ==
    Return(PyStr(S_unknown))

\* os.environ.get('BACKEND_REGION', 'local/unknown')
local_get_instance_region(env) ==
    IF env.backend_region.set
    THEN Return(PyStr(env.backend_region.value))
    ELSE Return(PyStr(S_local_unknown))

\* azure, google and local: async def _get_instance_scaling_group
constant_scaling_group(env) ==
    Return(PyStr(S_default))

\* the accessor of `fact` built for `provider`, called in `env` with the
\* script file present or not: how the call ends and whether the file is left
Accessor(provider, fact, env, script) ==
    CASE provider = "amazon" /\ fact = "id" ->
             Pure(amazon_get_instance_id(env), script)
      [] provider = "amazon" /\ fact = "ip" ->
             Pure(amazon_get_instance_ip(env), script)
      [] provider = "amazon" /\ fact = "type" ->
             Pure(amazon_get_instance_type(env), script)
      [] provider = "amazon" /\ fact = "region" ->
             Pure(amazon_get_instance_region(env), script)
      [] provider = "amazon" /\ fact = "scaling_group" ->
             amazon_get_instance_scaling_group(env)
      [] provider = "azure" /\ fact = "id" ->
             Pure(azure_get_instance_id(env), script)
      [] provider = "azure" /\ fact = "ip" ->
             Pure(azure_get_instance_ip(env), script)
      [] provider = "azure" /\ fact = "type" ->
             Pure(azure_get_instance_type(env), script)
      [] provider = "azure" /\ fact = "region" ->
             Pure(azure_get_instance_region(env), script)
      [] provider = "google" /\ fact = "id" ->
             Pure(google_get_instance_id(env), script)
      [] provider = "google" /\ fact = "ip" ->
             Pure(google_get_instance_ip(env), script)
      [] provider = "google" /\ fact = "type" ->
             Pure(google_get_instance_type(env), script)
      [] provider = "google" /\ fact = "region" ->
             Pure(google_get_instance_region(env), script)
      [] provider = "local" /\ fact = "id" ->
             Pure(local_get_instance_id(env), script)
      [] provider = "local" /\ fact = "ip" ->
             Pure(local_get_instance_ip(env), script)
      [] provider = "local" /\ fact = "type" ->
             Pure(local_get_instance_type(env), script)
      [] provider = "local" /\ fact = "region" ->
             Pure(local_get_instance_region(env), script)
      [] OTHER -> Pure(constant_scaling_group(env), script)

(***************************************************************************)
(* State                                                                   *)
(***************************************************************************)
VARIABLES
    host,                       \* the files and platform detection reads
    detect_ret,                 \* how the last detect_cloud() ended
    containerized_ret,          \* how the last is_containerized() ended
    curl_call,                  \* the last call of curl: response and default
    curl_result,                \* its outcome and counters
    current_provider,           \* identity.current_provider
    defined,                    \* identity._defined
    get_instance_id,            \* the five module-level accessors
    get_instance_ip,
    get_instance_type,
    get_instance_region,
    get_instance_scaling_group,
    builds,                     \* executions of the body of _define_functions
    define_calls,               \* calls of _define_functions
    call,                       \* the last accessor call: fact, function, env
    ret,                        \* how it ended
    script_exists,              \* ./retrieve_tag.sh is on disk
    num_parties,                \* AsyncBarrier.num_parties
    count,                      \* AsyncBarrier.count
    pc,                         \* where each coroutine is in wait()
    arrived,                    \* calls of wait() since construction or reset
    wait_calls,                 \* calls of wait() in all
    returned,                   \* returns of wait() in all
    resets                      \* calls of reset()

detect_vars ==
    <<host, detect_ret, containerized_ret>>
curl_vars ==
    <<curl_call, curl_result>>
accessors ==
    <<get_instance_id, get_instance_ip, get_instance_type,
      get_instance_region, get_instance_scaling_group>>
identity_vars ==
    <<current_provider, defined, accessors, builds, define_calls, call, ret,
      script_exists>>
barrier_vars ==
    <<num_parties, count, pc, arrived, wait_calls, returned, resets>>
vars ==
    <<detect_vars, curl_vars, identity_vars, barrier_vars>>

(***************************************************************************)
(* Bounds                                                                  *)
(***************************************************************************)
MaxDefineCalls ==
    3
NumCoros ==
    3
MaxParties ==
    3
MaxWaitCalls ==
    4
MaxResets ==
    2

Coros ==
    1..NumCoros

(***************************************************************************)
(* Detection: detect_cloud() and is_containerized() on one host            *)
(***************************************************************************)
DetectInit ==
    /\ host \in Hosts
    /\ detect_ret = NotCalled
    /\ containerized_ret = NotCalled

DetectIdle ==
    /\ host = [platform |-> PlatformLinux, bios |-> Missing,
               dhcp |-> Missing, cgroup |-> Missing]
    /\ detect_ret = NotCalled
    /\ containerized_ret = NotCalled

DetectCloud ==
    /\ detect_ret' = detect_cloud(host)
    /\ UNCHANGED <<host, containerized_ret>>
    /\ UNCHANGED <<curl_vars, identity_vars, barrier_vars>>

IsContainerized ==
    /\ containerized_ret' = is_containerized(host)
    /\ UNCHANGED <<host, detect_ret>>
    /\ UNCHANGED <<curl_vars, identity_vars, barrier_vars>>

(***************************************************************************)
(* curl on its own                                                         *)
(***************************************************************************)
CurlResponses ==
    HttpOutcomes
    \cup {Response(s, b) : s \in {204, 500}, b \in {BodyPlain, <<>>}}
    \cup {BodyFailed(HTTP_OK, "TimeoutError")}
CurlDefaults ==
    {None, PyStr(<<>>), PyStr(S_loopback), PyStr(S_unknown),
     PyLambda(PyStr(S_i_dash \o HostA)), PyLambda(PyStr(S_i_dash \o HostB)),
     PyLambda(None)}

CurlIdle ==
    /\ curl_call = NotCalled
    /\ curl_result = NotCalled

CurlCall ==
    /\ \E resp \in CurlResponses, d \in CurlDefaults :
          /\ curl_call' = [kind |-> "called", resp |-> resp,
                           default_value |-> d]
          /\ curl_result' = curl(resp, d)
    /\ UNCHANGED <<detect_vars, identity_vars, barrier_vars>>

(***************************************************************************)
(* identity.py: module load, _define_functions and the accessor calls      *)
(***************************************************************************)
\* lines 70-78: current_provider = detect_cloud(), nothing bound yet
IdentityInit ==
    /\ current_provider \in {detect_cloud(h).value : h \in Hosts}
    /\ defined = FALSE
    /\ get_instance_id = None
    /\ get_instance_ip = None
    /\ get_instance_type = None
    /\ get_instance_region = None
    /\ get_instance_scaling_group = None
    /\ builds = 0
    /\ define_calls = 0
    /\ call = NotCalled
    /\ ret = NotCalled
    /\ script_exists = FALSE

\* the if/elif chain of _define_functions: which set of accessors is built
Strategy(provider) ==
    IF provider = "amazon" THEN "amazon"
    ELSE IF provider = "azure" THEN "azure"
    ELSE IF provider = "google" THEN "google"
    ELSE "local"

\* a plausible slip: the guard of _define_functions never holds
already_defined_never ==
    FALSE

\* `if _defined: return`
already_defined ==
    defined

\* a plausible slip: one of the five assignments is missing
bind_all_but_one(f) ==
    [id |-> f, ip |-> f, type |-> f, region |-> f, scaling_group |-> None]

\* the five assignments that end _define_functions
bind_all(f) ==
    [id |-> f, ip |-> f, type |-> f, region |-> f, scaling_group |-> f]

\* a call that exited the process leaves nothing to run
Alive ==
    ret.kind # "exit"

\* _define_functions(): no await in it, so it runs as one step
DefineFunctions ==
    /\ Alive
    /\ define_calls < MaxDefineCalls
    /\ define_calls' = define_calls + 1
    /\ IF already_defined
       THEN UNCHANGED <<defined, accessors, builds>>
       ELSE LET b == bind_all(PyFunc([provider |-> Strategy(current_provider),
                                      build |-> builds + 1]))
            IN  /\ get_instance_id' = b.id
                /\ get_instance_ip' = b.ip
                /\ get_instance_type' = b.type
                /\ get_instance_region' = b.region
                /\ get_instance_scaling_group' = b.scaling_group
                /\ builds' = builds + 1
                /\ defined' = TRUE
    /\ UNCHANGED <<current_provider, call, ret, script_exists>>
    /\ UNCHANGED <<detect_vars, curl_vars, barrier_vars>>

\* the module-level name a caller looks up for a fact
AccessorOf(fact) ==
    CASE fact = "id" -> get_instance_id
      [] fact = "ip" -> get_instance_ip
      [] fact = "type" -> get_instance_type
      [] fact = "region" -> get_instance_region
      [] OTHER -> get_instance_scaling_group

\* await get_instance_<fact>()
Call(fact) ==
    /\ Alive
    /\ AccessorOf(fact).t = "function"
    /\ \E env \in Envs(AccessorOf(fact).provider, fact) :
          LET f == AccessorOf(fact)
              r == Accessor(f.provider, fact, env, script_exists)
          IN  /\ call' = [kind |-> "called", fact |-> fact, func |-> f,
                          env |-> env]
              /\ ret' = r.out
              /\ script_exists' = r.script
    /\ UNCHANGED <<current_provider, defined, accessors, builds, define_calls>>
    /\ UNCHANGED <<detect_vars, curl_vars, barrier_vars>>

(***************************************************************************)
(* utils.py: AsyncBarrier                                                  *)
(***************************************************************************)
BarrierIdle ==
    /\ num_parties = 1
    /\ count = 0
    /\ pc = [c \in Coros |-> "idle"]
    /\ arrived = 0
    /\ wait_calls = 0
    /\ returned = 0
    /\ resets = 0

\* AsyncBarrier(num_parties)
BarrierInit ==
    /\ num_parties \in 1..MaxParties
    /\ count = 0
    /\ pc = [c \in Coros |-> "idle"]
    /\ arrived = 0
    /\ wait_calls = 0
    /\ returned = 0
    /\ resets = 0

\* cond.notify_all(): every coroutine suspended in cond.wait() is woken
NotifyAll(p) ==
    [c \in Coros |-> IF p[c] = "waiting" THEN "notified" ELSE p[c]]

\* a plausible slip: the loop test is off by one
must_wait_again_off_by_one(n) ==
    n < num_parties - 1

\* `while self.count < self.num_parties`
must_wait_again(n) ==
    n < num_parties

\* wait() up to its first suspension or its return.  The condition's lock is
\* only ever held between two suspension points, so taking it never blocks.
Arrive(c) ==
    /\ pc[c] \in {"idle", "done"}
    /\ wait_calls < MaxWaitCalls
    /\ wait_calls' = wait_calls + 1
    /\ arrived' = arrived + 1
    /\ count' = count + 1
    /\ IF count' = num_parties
       THEN /\ pc' = [NotifyAll(pc) EXCEPT ![c] = "done"]
            /\ returned' = returned + 1
       ELSE IF must_wait_again(count')
       THEN /\ pc' = [pc EXCEPT ![c] = "waiting"]
            /\ UNCHANGED returned
       ELSE /\ pc' = [pc EXCEPT ![c] = "done"]
            /\ returned' = returned + 1
    /\ UNCHANGED <<num_parties, resets>>
    /\ UNCHANGED <<detect_vars, curl_vars, identity_vars>>

\* a notified coroutine resumes in cond.wait() and tests the loop again
Wake(c) ==
    /\ pc[c] = "notified"
    /\ IF must_wait_again(count)
       THEN /\ pc' = [pc EXCEPT ![c] = "waiting"]
            /\ UNCHANGED returned
       ELSE /\ pc' = [pc EXCEPT ![c] = "done"]
            /\ returned' = returned + 1
    /\ UNCHANGED <<num_parties, count, arrived, wait_calls, resets>>
    /\ UNCHANGED <<detect_vars, curl_vars, identity_vars>>

\* reset()
Reset ==
    /\ resets < MaxResets
    /\ resets' = resets + 1
    /\ count' = 0
    /\ arrived' = 0
    /\ UNCHANGED <<num_parties, pc, wait_calls, returned>>
    /\ UNCHANGED <<detect_vars, curl_vars, identity_vars>>

(***************************************************************************)
(* Specifications                                                          *)
(***************************************************************************)
IdentityIdle ==
    /\ current_provider = "unknown"
    /\ defined = FALSE
    /\ get_instance_id = None
    /\ get_instance_ip = None
    /\ get_instance_type = None
    /\ get_instance_region = None
    /\ get_instance_scaling_group = None
    /\ builds = 0
    /\ define_calls = 0
    /\ call = NotCalled
    /\ ret = NotCalled
    /\ script_exists = FALSE

\* the identity module
Init ==
    /\ IdentityInit
    /\ DetectIdle
    /\ CurlIdle
    /\ BarrierIdle
Next ==
    \/ DefineFunctions
    \/ \E fact \in Facts : Call(fact)
Spec ==
    Init /\ [][Next]_vars

\* detection
InitDetect ==
    /\ DetectInit
    /\ CurlIdle
    /\ IdentityIdle
    /\ BarrierIdle
NextDetect ==
    \/ DetectCloud
    \/ IsContainerized
SpecDetect ==
    InitDetect /\ [][NextDetect]_vars

\* curl
InitCurl ==
    /\ CurlIdle
    /\ DetectIdle
    /\ IdentityIdle
    /\ BarrierIdle
NextCurl ==
    CurlCall
SpecCurl ==
    InitCurl /\ [][NextCurl]_vars

\* the barrier
InitBarrier ==
    /\ BarrierInit
    /\ DetectIdle
    /\ CurlIdle
    /\ IdentityIdle
NextBarrier ==
    \/ \E c \in Coros : Arrive(c)
    \/ \E c \in Coros : Wake(c)
    \/ Reset
SpecBarrier ==
    InitBarrier /\ [][NextBarrier]_vars

\* the barrier under the event loop's scheduling: a coroutine woken by
\* notify_all() is resumed; arrivals and reset() are the callers' choice
SpecBarrierFair ==
    /\ InitBarrier
    /\ [][NextBarrier]_vars
    /\ \A c \in Coros : WF_vars(Wake(c))

(***************************************************************************)
(* Properties                                                              *)
(***************************************************************************)
T_google_us_central1 ==
    <<"g","o","o","g","l","e","/","u","s","-","c","e","n","t","r","a","l","1">>
T_i_0abc ==
    <<"i","-","0","a","b","c">>

\* every network request of the call fails: the GET times out or cannot
\* connect, DNS fails, and the tag helper runs and reports that it failed
NetworkBlocked(env) ==
    /\ env.http.exc \in {"TimeoutError", "ClientError"}
    /\ env.dns.exc = "DNSError"
    /\ env.helper.spawn = "ok"
    /\ env.helper.stderr # <<>>

\* C1: for every provider and each of the five accessors, a call made while
\* every network request fails returns a non-empty string, never an empty
\* string or a null value.
C1_NonEmptyWhenBlocked ==
    (call.kind = "called" /\ NetworkBlocked(call.env))
        => /\ ret.kind = "return"
           /\ ret.value.t = "str"
           /\ ret.value.s # <<>>

\* C2: no accessor call of any provider ends in an exception or in process
\* termination: whatever the underlying source does, the accessor returns a
\* value to the caller.
C2_AlwaysReturns ==
    call.kind = "called" => ret.kind = "return"

\* s with leading and trailing whitespace removed, said without Strip
IsTrimOf(r, s) ==
    \E i \in 0..Len(s), j \in 0..Len(s) :
        /\ i + j <= Len(s)
        /\ r = SubSeq(s, i + 1, Len(s) - j)
        /\ \A k \in 1..i : IsSpace(s[k])
        /\ \A k \in (Len(s) - j + 1)..Len(s) : IsSpace(s[k])
        /\ r # <<>> => (~IsSpace(r[1]) /\ ~IsSpace(r[Len(r)]))

\* C3: every call of curl makes exactly one GET and returns the trimmed body
\* when the response has status 200; otherwise (timeout, connection failure,
\* non-200 status) default_value itself, or the result of calling it when it
\* is callable.  A callable default is called only on failure, at most once.
C3_CurlContract ==
    curl_call.kind = "called" =>
        LET resp == curl_call.resp
            d == curl_call.default_value
            ok == /\ resp.exc = "none"
                  /\ resp.status = 200
                  /\ resp.body_exc = "none"
        IN  /\ curl_result.gets = 1
            /\ curl_result.out.kind = "return"
            /\ curl_result.default_calls <= 1
            /\ ok => /\ curl_result.out.value.t = "str"
                     /\ IsTrimOf(curl_result.out.value.s, resp.body)
                     /\ curl_result.default_calls = 0
            /\ ~ok => IF d.t = "lambda"
                      THEN /\ curl_result.out.value = d.result
                           /\ curl_result.default_calls = 1
                      ELSE /\ curl_result.out.value = d
                           /\ curl_result.default_calls = 0

\* a status-200 call with a padded body and a callable default: the body is
\* returned trimmed and the default is not called
C3_Witness ==
    /\ curl_call.kind = "called"
    /\ curl_call.resp = Response(200, BodyPlain)
    /\ curl_call.default_value.t = "lambda"
    /\ curl_result.out = Return(PyStr(T_i_0abc))
    /\ curl_result.default_calls = 0

\* the file is readable and its text has w in it, whatever the case
HasIgnoringCase(f, w) ==
    /\ f.state = "ok"
    /\ \E i \in 1..(Len(f.text) - Len(w) + 1) :
          \A k \in 1..Len(w) : LowerChar(f.text[i + k - 1]) = w[k]

\* C4: detect_cloud() never raises and returns one of the four tags, decided
\* in order: google if the BIOS version has "google" (any case), else amazon
\* if it has "amazon", else azure if the lease file has the lease option,
\* else unknown; a missing or unreadable file is no signal, and a non-Linux
\* platform gives unknown.
C4_DetectOrder ==
    detect_ret.kind # "not_called" =>
        LET linux == /\ Len(host.platform) >= 5
                     /\ SubSeq(host.platform, 1, 5) = S_linux
        IN  /\ detect_ret.kind = "return"
            /\ detect_ret.value \in ProviderTags
            /\ detect_ret.value =
                 IF linux /\ HasIgnoringCase(host.bios, S_google)
                 THEN "google"
                 ELSE IF linux /\ HasIgnoringCase(host.bios, S_amazon)
                 THEN "amazon"
                 ELSE IF /\ linux
                         /\ host.dhcp.state = "ok"
                         /\ Contains(host.dhcp.text, S_lease_option)
                 THEN "azure"
                 ELSE "unknown"

\* a BIOS version naming both providers is detected as google
C4_Witness ==
    /\ detect_ret = Return("google")
    /\ host.bios = File(BiosBoth)
    /\ host.dhcp = File(DhcpAzure)

\* the facts whose module-level accessor is bound
BoundFacts ==
    {fact \in Facts : AccessorOf(fact).t = "function"}

\* C5: in every reachable state the five accessors are all unbound or all
\* bound to the implementations of one provider, and _defined is never true
\* while an accessor is unbound.
C5_AllOrNothing ==
    /\ BoundFacts = {} \/ BoundFacts = Facts
    /\ \A f, g \in BoundFacts :
          AccessorOf(f).provider = AccessorOf(g).provider
    /\ defined => BoundFacts = Facts

\* a second call of _define_functions has come after the first bound the set
C5_Witness ==
    /\ define_calls >= 2
    /\ defined
    /\ BoundFacts = Facts

\* C6: the provider tag and the accessor set are written at most once: once
\* _define_functions has completed, a later call rebuilds and rebinds
\* nothing, and current_provider never changes after module load.
C6_WrittenOnce ==
    [][/\ current_provider' = current_provider
       /\ defined => /\ defined'
                     /\ accessors' = accessors
                     /\ builds' = builds]_vars

\* an accessor call made after a second call of _define_functions uses the
\* set of the first build
C6_Witness ==
    /\ define_calls >= 2
    /\ call.kind = "called"
    /\ call.func.build = 1
    /\ builds = 1

\* C7: with provider google and the zone request answered by
\* "projects/123/zones/us-central1-a", get_instance_region returns
\* "google/us-central1".
C7_GoogleRegionOfZone ==
    (/\ call.kind = "called"
     /\ call.func.provider = "google"
     /\ call.fact = "region"
     /\ call.env.http = Response(200, BodyZone))
        => ret = Return(PyStr(T_google_us_central1))

\* C8: whenever a call of the Amazon get_instance_scaling_group has ended,
\* on every exit path, ./retrieve_tag.sh no longer exists.
C8_ScriptRemoved ==
    (/\ call.kind = "called"
     /\ call.func.provider = "amazon"
     /\ call.fact = "scaling_group")
        => ~script_exists

\* C9: no call of wait() returns before num_parties calls of wait() have
\* been made since construction or since the last reset().
C9_NoEarlyReturn ==
    [][returned' > returned => arrived' >= num_parties]_vars

\* a barrier of several parties was reset and its waiters have returned
C9_Witness ==
    /\ num_parties >= 2
    /\ resets >= 1
    /\ returned >= num_parties
    /\ arrived >= num_parties

\* C10: is_containerized() always returns a boolean: true when the cgroup
\* file has a docker or lxc marker, false when it is readable without a
\* marker, false when it cannot be read.
C10_ContainerizedIsBool ==
    containerized_ret.kind # "not_called" =>
        /\ containerized_ret.kind = "return"
        /\ containerized_ret.value.t = "bool"
        /\ containerized_ret.value.b =
             (/\ host.cgroup.state = "ok"
              /\ \/ Contains(host.cgroup.text, S_docker)
                 \/ Contains(host.cgroup.text, S_lxc))

\* C11: once the n-th call of wait() has been made, every coroutine that was
\* blocked in wait() (and so has been notified) eventually returns, also
\* when reset() is called before it has resumed.
C11_WaitersReleased ==
    \A c \in Coros : (pc[c] = "notified") ~> (pc[c] = "done")

====
